---- MODULE Spec2Model ----
(***************************************************************************)
(* Model of the lazy best-first search engines of lazy_pathfinding:        *)
(* dijkstra / dijkstraInternal / buildPath (directed/dijkstra.ts, the      *)
(* revision with maxCost), aStar and aStarBag (directed/a_star.ts),        *)
(* reversePath (directed/_reverse_path.ts) and numberCostOptions           *)
(* (directed/cost_options.ts).                                             *)
(*                                                                         *)
(* A behaviour is one caller working on one lazily described graph: the    *)
(* caller invokes the public functions one after the other (Script), each  *)
(* call owning a fresh frontier (toSee) and registry (encounteredNodes).   *)
(* Cost values are the non-negative numbers of the default cost algebra:   *)
(* edge costs, heuristic values and cost ceilings are all drawn from it.   *)
(* BinaryHeap is an external collaborator: pop returns some minimum of the *)
(* comparator, ties broken nondeterministically.                           *)
(*                                                                         *)
(* Two further callers have specifications of their own: SpecComponents    *)
(* runs separateComponents, components and componentIndex                  *)
(* (tests/aoc_2021_12.test.ts) on every list of groups, SpecCountPaths     *)
(* runs countPaths (directed/count_paths.ts) on every acyclic graph.       *)
(* SpecWider is the caller of the engines on graphs of one more edge.      *)
(***************************************************************************)
EXTENDS Integers, Sequences, FiniteSets, TLC

VARIABLES
  problem,           \* the caller's graph: [start, edges, goals]
  history,           \* one summary per finished call, in call order
  call,              \* the options of the running call: [fn, heuristic, maxCost]
  pc,                \* position of the running call
  toSee,             \* the frontier: a set of SmallestCostHolder records
  encounteredNodes,  \* the registry: key -> entry, defined on the keys seen
  holder,            \* const smallestCostHolder (with the node and cost read for it)
  popped,            \* the holder the last toSee.pop() returned, as it was pushed
  pending,           \* the successors the running for-loop has not visited yet
  closed,            \* the keys popped so far as a holder that was not stale
  minCost,           \* aStarBag: let minCost
  sinks,             \* aStarBag: const sinks, in insertion order
  path,              \* aStarBag generator: the shared path buffer
  stack,             \* aStarBag generator: one frame per live step() activation
  yielded,           \* aStarBag generator: the paths yielded so far
  again,             \* <<>>, or <<the paths a second iteration of paths yielded>>
  result,            \* the value the call returned
  groups,            \* components: the caller's groups, an array of arrays of vertices
  phase,             \* components / countPaths: position of the caller
  setIdsByGroup,     \* separateComponents: const setIdsByGroup
  setIdsByNode,      \* separateComponents: const setIdsByNode, in insertion order
  groupCursor,       \* separateComponents: index of the next group forEach visits
  componentSets,     \* the list components(groups) returned
  componentSetsAgain, \* the list a second components(groups) returned
  nodeIndex,         \* the map componentIndex returned
  options,           \* countPaths: the caller's [start, edges, goals]
  cache,             \* countPaths: the cache as the call left it
  count              \* countPaths: the number returned

vars == <<problem, history, call, pc, toSee, encounteredNodes, holder, popped, pending,
          closed, minCost, sinks, path, stack, yielded, again, result,
          groups, phase, setIdsByGroup, setIdsByNode, groupCursor, componentSets,
          componentSetsAgain, nodeIndex, options, cache, count>>

searchVars == <<toSee, encounteredNodes, holder, popped, pending, closed>>
bagVars == <<minCost, sinks, path, stack, yielded, again>>
componentVars == <<groups, phase, setIdsByGroup, setIdsByNode, groupCursor,
                   componentSets, componentSetsAgain, nodeIndex>>
countVars == <<options, cache, count>>
utilityVars == <<componentVars, countVars>>

----------------------------------------------------------------------------
(* The vertices of the caller's graphs, and the bounds of the model.      *)
(* Vertex 0 is there on purpose: its identity key is the number 0.         *)

Keys == {0, 1, 2}

NumNodes == Cardinality(Keys)

MaxWeight == 1

MaxStack == 4

(* At most as many edges as vertices.                                      *)
MaxEdges == NumNodes

(* `undefined`: an absent parent key, an absent maxCost, no minCost yet.   *)
Undefined == -1

Weights == 0 .. MaxWeight
Ceilings == 0 .. MaxWeight

----------------------------------------------------------------------------
(* numberCostOptions                                                       *)

zero == 0

add(a, b) == a + b

compareFn(a, b) == a - b

----------------------------------------------------------------------------
(* The caller's functions.  A node value is [k, via]: the vertex k and the *)
(* vertex it was produced from, so that two values of one vertex can       *)
(* differ.  key keeps the vertex: the identity key of a primitive node.    *)

key(node) == node.k

startNode == [k |-> problem.start, via |-> problem.start]

success(node) == node.k \in problem.goals

RECURSIVE successorsFrom(_, _)
successorsFrom(k, t) ==
  IF t \notin Keys THEN <<>>
  ELSE (IF <<k, t>> \in DOMAIN problem.edges
          THEN << <<[k |-> t, via |-> k], problem.edges[<<k, t>>]>> >>
          ELSE <<>>) \o successorsFrom(k, t + 1)

successors(node) == successorsFrom(node.k, 0)

----------------------------------------------------------------------------
(* The caller.  The calls of one behaviour follow Script; a call's summary *)
(* is appended to history when it returns.                                 *)

Script == <<"dijkstra", "aStarZero", "aStar", "dijkstraMaxCost", "aStarMaxCost",
           "aStarBag", "aStarBagMaxCost">>

slot == IF pc = "idle" /\ Len(history) < Len(Script)
          THEN Script[Len(history) + 1] ELSE "none"

noHolder == [nodeKey |-> Undefined, cost |-> zero]

zeroHeuristic == [k \in Keys |-> zero]

heuristic(node) == call.heuristic[key(node)]

(* Every call starts from structures of its own.                           *)
FreshBag ==
  /\ minCost' = Undefined
  /\ sinks' = <<>>
  /\ path' = <<>>
  /\ stack' = <<>>
  /\ yielded' = <<>>
  /\ again' = <<>>

FreshLocals ==
  /\ holder' = noHolder
  /\ popped' = noHolder
  /\ pending' = <<>>
  /\ closed' = {}
  /\ result' = <<>>

----------------------------------------------------------------------------
(* reversePath and buildPath                                               *)

truthy(nodeKey) == nodeKey # Undefined /\ nodeKey # 0

RECURSIVE reversePathList(_, _)
reversePathList(nodes, nodeKey) ==
  IF ~truthy(nodeKey) THEN <<>>
  ELSE IF nodeKey \notin DOMAIN nodes THEN <<>>
  ELSE <<nodeKey>> \o reversePathList(nodes, nodes[nodeKey].parentKey)

RECURSIVE reversed(_)
reversed(list) ==
  IF list = <<>> THEN <<>> ELSE reversed(Tail(list)) \o <<Head(list)>>

reversePath(nodes, startNodeKey) == reversed(reversePathList(nodes, startNodeKey))

buildPath(targetKey, nodes) ==
  LET keys == reversePath(nodes, targetKey)
  IN [i \in 1 .. Len(keys) |-> nodes[keys[i]].node]

----------------------------------------------------------------------------
(* dijkstraInternal, the loop behind dijkstra, dijkstraAll and             *)
(* dijkstraPartial.  result is the successNodeKey it returns.              *)

(* Faulty variant: the holders are compared the wrong way round.           *)
dijkstraCompareSmallestCostHoldersSwapped(a, b) == compareFn(b.cost, a.cost)

dijkstraCompareSmallestCostHolders(a, b) == compareFn(a.cost, b.cost)

dijkstraMinima == {e \in toSee :
                     \A o \in toSee : dijkstraCompareSmallestCostHolders(e, o) <= 0}

(* Faulty variant: a holder as cheap as the registry entry counts as stale. *)
dijkstraStaleOrEqual(holderCost, cost) == compareFn(holderCost, cost) >= 0

dijkstraStale(holderCost, cost) == compareFn(holderCost, cost) > 0

(* Faulty variants of the maxCost test: one that also prunes a successor    *)
(* whose cost equals maxCost, one that compares against a maxCost that was *)
(* not given, and one that never prunes (the loop before maxCost existed). *)
dijkstraOverMaxCostInclusive(newCost, maxCost) ==
  maxCost # Undefined /\ compareFn(newCost, maxCost) >= 0

dijkstraOverMaxCostUnguarded(newCost, maxCost) == compareFn(newCost, maxCost) > 0

dijkstraOverMaxCostIgnored(newCost, maxCost) == FALSE

dijkstraOverMaxCost(newCost, maxCost) ==
  maxCost # Undefined /\ compareFn(newCost, maxCost) > 0

(* Faulty variant: a registered key is never given a cheaper route.        *)
dijkstraBetterNever(entryCost, newCost) == FALSE

(* Faulty variant: an entry is also replaced by a route of equal cost.      *)
dijkstraBetterOrEqual(entryCost, newCost) == compareFn(entryCost, newCost) >= 0

dijkstraBetter(entryCost, newCost) == compareFn(entryCost, newCost) > 0

(* The public wrappers, applied to what dijkstraInternal returned: the     *)
(* registry and successNodeKey.  undefined is <<>>.                        *)
dijkstra(nodes, successNodeKey) ==
  IF successNodeKey = Undefined THEN <<>>
  ELSE <<buildPath(successNodeKey, nodes), nodes[successNodeKey].cost>>

dijkstraPartial(nodes, successNodeKey) ==
  <<nodes, IF successNodeKey = Undefined THEN <<>> ELSE <<nodes[successNodeKey].node>> >>

(* dijkstraAll is dijkstraInternal with success: () => false, which is the *)
(* call on a problem whose goals are empty.                                *)
dijkstraAll(nodes) == nodes

DijkstraCall ==
  /\ slot \in {"dijkstra", "dijkstraMaxCost"}
  /\ \E maxCost \in (IF slot = "dijkstra" THEN {Undefined} ELSE Ceilings) :
       call' = [slot |-> slot, fn |-> "dijkstraInternal", heuristic |-> zeroHeuristic,
                maxCost |-> maxCost]
  /\ toSee' = {[cost |-> zero, nodeKey |-> key(startNode)]}
  /\ encounteredNodes' =
       (key(startNode) :> [node |-> startNode, parentKey |-> Undefined, cost |-> zero])
  /\ pc' = "loop"
  /\ FreshLocals
  /\ FreshBag
  /\ UNCHANGED <<utilityVars, problem, history>>

DijkstraPop ==
  /\ pc = "loop"
  /\ call.fn = "dijkstraInternal"
  /\ IF toSee = {}
       THEN /\ result' = Undefined
            /\ pc' = "returned"
            /\ UNCHANGED <<toSee, holder, popped, pending, closed>>
       ELSE \E smallestCostHolder \in dijkstraMinima :
              LET entry == encounteredNodes[smallestCostHolder.nodeKey]
              IN /\ toSee' = toSee \ {smallestCostHolder}
                 /\ popped' = smallestCostHolder
                 /\ IF success(entry.node)
                      THEN /\ result' = smallestCostHolder.nodeKey
                           /\ pc' = "returned"
                           /\ UNCHANGED <<holder, pending, closed>>
                      ELSE IF dijkstraStale(smallestCostHolder.cost, entry.cost)
                        THEN UNCHANGED <<pc, holder, pending, closed, result>>
                        ELSE /\ holder' = [nodeKey |-> smallestCostHolder.nodeKey,
                                           cost |-> entry.cost]
                             /\ closed' = closed \cup {smallestCostHolder.nodeKey}
                             /\ pending' = successors(entry.node)
                             /\ pc' = IF pending' = <<>> THEN "loop" ELSE "expand"
                             /\ UNCHANGED result
  /\ UNCHANGED <<utilityVars, problem, history, call, encounteredNodes, bagVars>>

DijkstraExpand ==
  /\ pc = "expand"
  /\ call.fn = "dijkstraInternal"
  /\ LET successor == Head(pending)[1]
         moveCost == Head(pending)[2]
         newCost == add(holder.cost, moveCost)
         successorKey == key(successor)
     IN IF dijkstraOverMaxCost(newCost, call.maxCost)
          THEN UNCHANGED <<toSee, encounteredNodes>>
          ELSE IF \/ successorKey \notin DOMAIN encounteredNodes
                  \/ dijkstraBetter(encounteredNodes[successorKey].cost, newCost)
            THEN /\ encounteredNodes' =
                      [k \in DOMAIN encounteredNodes \cup {successorKey} |->
                         IF k = successorKey
                           THEN [node |-> successor, parentKey |-> holder.nodeKey,
                                 cost |-> newCost]
                           ELSE encounteredNodes[k]]
                 /\ toSee' = toSee \cup {[cost |-> newCost, nodeKey |-> successorKey]}
            ELSE UNCHANGED <<toSee, encounteredNodes>>
  /\ pending' = Tail(pending)
  /\ pc' = IF pending' = <<>> THEN "loop" ELSE "expand"
  /\ UNCHANGED <<utilityVars, problem, history, call, holder, popped, closed, result, bagVars>>

----------------------------------------------------------------------------
(* What the graph itself says, computed without the engines: the cheapest  *)
(* cost from a vertex to a set of vertices (Bellman-Ford over the edges).  *)
(* Infinity stands for "no path".                                          *)

Infinity == NumNodes * (MaxWeight + 1)

Smallest(S) == CHOOSE x \in S : \A y \in S : x <= y

RECURSIVE relax(_, _, _)
relax(edges, d, rounds) ==
  IF rounds = 0 THEN d
  ELSE relax(edges,
             [k \in Keys |->
                Smallest({d[k]} \cup
                         {edges[e] + d[e[2]] : e \in {x \in DOMAIN edges : x[1] = k}})],
             rounds - 1)

(* costTo(T)[k]: the cheapest cost of a path from k to a vertex of T.      *)
costTo(T) ==
  relax(problem.edges, [k \in Keys |-> IF k \in T THEN 0 ELSE Infinity], NumNodes)

optimalCost == costTo(problem.goals)[problem.start]

goalReachable == optimalCost < Infinity

(* The heuristics the caller passes.  The contract of                      *)
(* AStarOptions.heuristic: never greater than the real cost to a goal.     *)
(* Each estimate is zero or the real cost, capped at MaxWeight + 1 (the    *)
(* real cost is Infinity where no goal can be reached).  Such a heuristic  *)
(* need not be consistent.  The estimate of the start is left at zero: no  *)
(* engine uses it, the start being pushed with estimatedCost zero and      *)
(* never pushed again.                                                     *)
Admissible ==
  LET real == costTo(problem.goals)
  IN {h \in [Keys -> 0 .. (MaxWeight + 1)] :
        /\ h[problem.start] = zero
        /\ \A k \in Keys : h[k] = zero \/ h[k] = Smallest({real[k], MaxWeight + 1})}

----------------------------------------------------------------------------
(* aStar                                                                   *)

(* Faulty variant: the holders are compared the wrong way round.           *)
compareSmallestCostHoldersSwapped(a, b) ==
  LET estimatedCostsCompared == compareFn(b.estimatedCost, a.estimatedCost)
  IN IF estimatedCostsCompared # 0 THEN estimatedCostsCompared
     ELSE compareFn(b.cost, a.cost)

(* Faulty variant: holders of equal estimated cost are not told apart.     *)
compareSmallestCostHoldersByEstimate(a, b) == compareFn(a.estimatedCost, b.estimatedCost)

compareSmallestCostHolders(a, b) ==
  LET estimatedCostsCompared == compareFn(a.estimatedCost, b.estimatedCost)
  IN IF estimatedCostsCompared # 0 THEN estimatedCostsCompared
     ELSE compareFn(a.cost, b.cost)

minima == {e \in toSee : \A o \in toSee : compareSmallestCostHolders(e, o) <= 0}

(* Faulty variant: a holder as cheap as the registry entry counts as stale. *)
aStarStaleOrEqual(holderCost, cost) == compareFn(holderCost, cost) >= 0

aStarStale(holderCost, cost) == compareFn(holderCost, cost) > 0

(* Faulty variant: a registered key is never given a cheaper route.        *)
aStarBetterNever(entryCost, newCost) == FALSE

aStarBetter(entryCost, newCost) == compareFn(entryCost, newCost) > 0

aStarEstimate(newCost, heuristicCost) == add(newCost, heuristicCost)

AStarCall ==
  /\ slot \in {"aStarZero", "aStar", "aStarMaxCost"}
  /\ \E h \in (IF slot = "aStar" THEN Admissible ELSE {zeroHeuristic}),
        maxCost \in (IF slot = "aStarMaxCost" THEN Ceilings ELSE {Undefined}) :
       call' = [slot |-> slot, fn |-> "aStar", heuristic |-> h, maxCost |-> maxCost]
  /\ toSee' = {[estimatedCost |-> zero, cost |-> zero, nodeKey |-> key(startNode)]}
  /\ encounteredNodes' =
       (key(startNode) :> [node |-> startNode, parentKey |-> Undefined, cost |-> zero])
  /\ pc' = "loop"
  /\ FreshLocals
  /\ FreshBag
  /\ UNCHANGED <<utilityVars, problem, history>>

AStarPop ==
  /\ pc = "loop"
  /\ call.fn = "aStar"
  /\ IF toSee = {}
       THEN /\ result' = <<>>
            /\ pc' = "returned"
            /\ UNCHANGED <<toSee, holder, popped, pending, closed>>
       ELSE \E smallestCostHolder \in minima :
              LET entry == encounteredNodes[smallestCostHolder.nodeKey]
              IN /\ toSee' = toSee \ {smallestCostHolder}
                 /\ popped' = smallestCostHolder
                 /\ IF success(entry.node)
                      THEN /\ result' =
                                <<buildPath(smallestCostHolder.nodeKey, encounteredNodes),
                                  entry.cost>>
                           /\ pc' = "returned"
                           /\ UNCHANGED <<holder, pending, closed>>
                      ELSE IF aStarStale(smallestCostHolder.cost, entry.cost)
                        THEN UNCHANGED <<pc, holder, pending, closed, result>>
                        ELSE /\ holder' = [nodeKey |-> smallestCostHolder.nodeKey,
                                           cost |-> entry.cost]
                             /\ closed' = closed \cup {smallestCostHolder.nodeKey}
                             /\ pending' = successors(entry.node)
                             /\ pc' = IF pending' = <<>> THEN "loop" ELSE "expand"
                             /\ UNCHANGED result
  /\ UNCHANGED <<utilityVars, problem, history, call, encounteredNodes, bagVars>>

AStarExpand ==
  /\ pc = "expand"
  /\ call.fn = "aStar"
  /\ LET successor == Head(pending)[1]
         moveCost == Head(pending)[2]
         newCost == add(holder.cost, moveCost)
         successorKey == key(successor)
         heuristicCost == heuristic(successor)
     IN IF \/ successorKey \notin DOMAIN encounteredNodes
           \/ aStarBetter(encounteredNodes[successorKey].cost, newCost)
          THEN /\ encounteredNodes' =
                    [k \in DOMAIN encounteredNodes \cup {successorKey} |->
                       IF k = successorKey
                         THEN [node |-> successor, parentKey |-> holder.nodeKey,
                               cost |-> newCost]
                         ELSE encounteredNodes[k]]
               /\ toSee' = toSee \cup
                    {[estimatedCost |-> aStarEstimate(newCost, heuristicCost),
                      cost |-> newCost, nodeKey |-> successorKey]}
          ELSE UNCHANGED <<toSee, encounteredNodes>>
  /\ pending' = Tail(pending)
  /\ pc' = IF pending' = <<>> THEN "loop" ELSE "expand"
  /\ UNCHANGED <<utilityVars, problem, history, call, holder, popped, closed, result, bagVars>>

----------------------------------------------------------------------------
(* aStarBag: the search loop                                               *)

(* Set.add on a Set kept in insertion order.                               *)
setAdd(list, x) ==
  IF \E i \in 1 .. Len(list) : list[i] = x THEN list ELSE Append(list, x)

(* Faulty variant: the loop never stops at the recorded minimum cost.      *)
bagCutoffNever(estimatedCost, min) == FALSE

bagCutoff(estimatedCost, min) == min # Undefined /\ compareFn(estimatedCost, min) > 0

(* Faulty variant: no popped holder is ever taken for stale.               *)
bagStaleNever(holderCost, cost) == FALSE

(* Faulty variant: a holder as cheap as the registry entry counts as stale. *)
bagStaleOrEqual(holderCost, cost) == compareFn(holderCost, cost) >= 0

bagStale(holderCost, cost) == compareFn(holderCost, cost) > 0

(* Faulty variant: the parents of the worse cost are kept.                 *)
bagBetterCostParentsKept(parentKeys, parentKey) == setAdd(parentKeys, parentKey)

(* parentKeys.clear(); parentKeys.add(smallestCostHolder.nodeKey)          *)
bagBetterCostParents(parentKeys, parentKey) == <<parentKey>>

(* Faulty variant: a parent of equal cost takes the place of the others.    *)
bagEqualCostParentsReplaced(parentKeys, parentKey) == <<parentKey>>

bagEqualCostParents(parentKeys, parentKey) == setAdd(parentKeys, parentKey)

AStarBagCall ==
  /\ slot \in {"aStarBag", "aStarBagMaxCost"}
  /\ \E h \in (IF slot = "aStarBag" THEN Admissible ELSE {zeroHeuristic}),
        maxCost \in (IF slot = "aStarBagMaxCost" THEN Ceilings ELSE {Undefined}) :
       call' = [slot |-> slot, fn |-> "aStarBag", heuristic |-> h, maxCost |-> maxCost]
  /\ toSee' = {[estimatedCost |-> zero, cost |-> zero, nodeKey |-> key(startNode)]}
  /\ encounteredNodes' =
       (key(startNode) :> [node |-> startNode, parentKeys |-> <<>>, cost |-> zero])
  /\ pc' = "loop"
  /\ FreshLocals
  /\ FreshBag
  /\ UNCHANGED <<utilityVars, problem, history>>

AStarBagPop ==
  /\ pc = "loop"
  /\ call.fn = "aStarBag"
  /\ IF toSee = {}
       THEN /\ pc' = "finish"
            /\ UNCHANGED <<toSee, holder, popped, pending, closed, minCost, sinks>>
       ELSE \E smallestCostHolder \in minima :
              LET entry == encounteredNodes[smallestCostHolder.nodeKey]
                  isGoal == success(entry.node)
              IN /\ toSee' = toSee \ {smallestCostHolder}
                 /\ popped' = smallestCostHolder
                 /\ IF bagCutoff(smallestCostHolder.estimatedCost, minCost)
                      THEN /\ pc' = "finish"
                           /\ UNCHANGED <<holder, pending, closed, minCost, sinks>>
                      ELSE /\ minCost' = IF isGoal THEN entry.cost ELSE minCost
                           /\ sinks' = IF isGoal
                                         THEN setAdd(sinks, smallestCostHolder.nodeKey)
                                         ELSE sinks
                           /\ IF bagStale(smallestCostHolder.cost, entry.cost)
                                THEN UNCHANGED <<pc, holder, pending, closed>>
                                ELSE /\ holder' = [nodeKey |-> smallestCostHolder.nodeKey,
                                                   cost |-> entry.cost]
                                     /\ closed' = closed \cup {smallestCostHolder.nodeKey}
                                     /\ pending' = successors(entry.node)
                                     /\ pc' = IF pending' = <<>> THEN "loop" ELSE "expand"
  /\ UNCHANGED <<utilityVars, problem, history, call, encounteredNodes, path, stack, yielded, again,
                 result>>

AStarBagExpand ==
  /\ pc = "expand"
  /\ call.fn = "aStarBag"
  /\ LET successor == Head(pending)[1]
         moveCost == Head(pending)[2]
         newCost == add(holder.cost, moveCost)
         successorKey == key(successor)
         heuristicCost == heuristic(successor)
         pushed == toSee \cup {[estimatedCost |-> add(newCost, heuristicCost),
                                cost |-> newCost, nodeKey |-> successorKey]}
     IN IF successorKey \notin DOMAIN encounteredNodes
          THEN /\ encounteredNodes' =
                    [k \in DOMAIN encounteredNodes \cup {successorKey} |->
                       IF k = successorKey
                         THEN [node |-> successor, parentKeys |-> <<holder.nodeKey>>,
                               cost |-> newCost]
                         ELSE encounteredNodes[k]]
               /\ toSee' = pushed
          ELSE LET encounteredNodeEntry == encounteredNodes[successorKey]
                   comparisonResult == compareFn(encounteredNodeEntry.cost, newCost)
               IN IF comparisonResult > 0
                    THEN /\ encounteredNodes' =
                              [encounteredNodes EXCEPT
                                 ![successorKey].parentKeys =
                                   bagBetterCostParents(@, holder.nodeKey),
                                 ![successorKey].cost = newCost]
                         /\ toSee' = pushed
                    ELSE /\ encounteredNodes' =
                              IF comparisonResult = 0
                                THEN [encounteredNodes EXCEPT
                                        ![successorKey].parentKeys =
                                          bagEqualCostParents(@, holder.nodeKey)]
                                ELSE encounteredNodes
                         /\ UNCHANGED toSee
  /\ pending' = Tail(pending)
  /\ pc' = IF pending' = <<>> THEN "loop" ELSE "expand"
  /\ UNCHANGED <<utilityVars, problem, history, call, holder, popped, closed, result, bagVars>>

(* After the loop: undefined, or [paths, minCost] with paths a generator   *)
(* that has not run yet.                                                   *)
AStarBagReturn ==
  /\ pc = "finish"
  /\ IF minCost # Undefined
       THEN /\ result' = <<"paths", minCost>>
            /\ pc' = "returnedPaths"
       ELSE /\ result' = <<>>
            /\ pc' = "returned"
  /\ UNCHANGED <<utilityVars, problem, history, call, searchVars, bagVars>>

----------------------------------------------------------------------------
(* aStarBag: the paths generator, run by the caller's iteration.  stack    *)
(* holds the generator body (key Undefined, iterating sinks_) and above it *)
(* one frame per live step(path, currentKey); idx is the next element of   *)
(* the frame's for-of.  path.push, the yield of path.toReversed() and      *)
(* path.pop() of one iteration that reaches the start are one step.        *)

Front(list) == SubSeq(list, 1, Len(list) - 1)

frameList(frame) ==
  IF frame.key = Undefined THEN sinks ELSE encounteredNodes[frame.key].parentKeys

stepReachesStart(parentKey) == parentKey = key(startNode)

GeneratorStart ==
  /\ pc = "returnedPaths"
  /\ stack' = <<[key |-> Undefined, idx |-> 1]>>
  /\ path' = <<>>
  /\ yielded' = <<>>
  /\ pc' = "iterating"
  /\ UNCHANGED <<utilityVars, problem, history, call, searchVars, minCost, sinks, again, result>>

GeneratorStep ==
  /\ pc = "iterating"
  /\ stack # <<>>
  /\ LET frame == stack[Len(stack)]
         list == frameList(frame)
         below == Front(stack)
         advanced == Append(below, [frame EXCEPT !.idx = @ + 1])
     IN IF frame.idx > Len(list)
          THEN \* the for-of is over: the frame returns, its caller pops the path
               /\ stack' = below
               /\ path' = IF below = <<>> THEN path ELSE Front(path)
               /\ pc' = IF below = <<>> THEN "returned" ELSE "iterating"
               /\ UNCHANGED yielded
          ELSE LET next == list[frame.idx]
                   pushedPath == Append(path, encounteredNodes[next].node)
               IN IF frame.key # Undefined /\ stepReachesStart(next)
                    THEN /\ yielded' = Append(yielded, reversed(pushedPath))
                         /\ stack' = advanced
                         /\ UNCHANGED <<path, pc>>
                    ELSE IF Len(stack) >= MaxStack
                      THEN \* RangeError: Maximum call stack size exceeded
                           /\ pc' = "threw"
                           /\ UNCHANGED <<stack, path, yielded>>
                      ELSE /\ stack' = Append(advanced, [key |-> next, idx |-> 1])
                           /\ path' = pushedPath
                           /\ UNCHANGED <<yielded, pc>>
  /\ UNCHANGED <<utilityVars, problem, history, call, searchVars, minCost, sinks, again, result>>

(* paths is one generator object: (function* () { ... })() is called once, *)
(* and its [Symbol.iterator]() returns the object itself.  A second        *)
(* iteration therefore resumes the generator where the first one left it:  *)
(* after a full first iteration the body has returned (stack is empty),    *)
(* and next() reports done without running anything.                       *)
generatorCompleted == stack = <<>>

GeneratorIterateAgain ==
  /\ pc = "returned"
  /\ call.fn = "aStarBag"
  /\ result # <<>>
  /\ again = <<>>
  /\ generatorCompleted
  /\ again' = << <<>> >>
  /\ UNCHANGED <<utilityVars, problem, history, call, pc, searchVars, minCost, sinks, path, stack,
                 yielded, result>>

----------------------------------------------------------------------------
(* The caller takes the returned value and goes on to its next call.  It   *)
(* keeps the outcome of the calls it made without a cost ceiling, to       *)
(* compare the later calls with.                                           *)

callFound == IF call.fn = "dijkstraInternal" THEN result # Undefined ELSE result # <<>>

callCost == IF call.fn = "dijkstraInternal" THEN encounteredNodes[result].cost
            ELSE result[2]

Finish ==
  /\ pc = "returned"
  /\ history' = Append(history,
                       IF call.maxCost = Undefined
                         THEN [slot |-> call.slot, found |-> callFound,
                               cost |-> IF callFound THEN callCost ELSE Undefined]
                         ELSE [slot |-> call.slot, found |-> FALSE, cost |-> Undefined])
  /\ pc' = "idle"
  /\ UNCHANGED <<utilityVars, problem, call, result, searchVars, bagVars>>

----------------------------------------------------------------------------
(* Connected components (the separateComponents family).  Arrays are       *)
(* functions on 0 .. length-1, a Map is the sequence of its entries in     *)
(* insertion order, a Set<Node> is a set.                                  *)

Vertices == {0, 1, 2, 3}

MaxGroups == 3

(* A group lists no vertex, one vertex or two, repeats allowed.            *)
Group == {<<>>} \cup {<<u>> : u \in Vertices} \cup (Vertices \X Vertices)

emptyGroupId == -1

arrayLength(array) == Cardinality(DOMAIN array)

RECURSIVE concatenated(_, _)
concatenated(gs, index) ==
  IF index >= arrayLength(gs) THEN <<>>
  ELSE gs[index] \o concatenated(gs, index + 1)

(* The vertices being alike, a list of groups names them 0, 1, 2, 3 in the *)
(* order in which they first appear.                                       *)
namedInOrder(gs) ==
  LET all == concatenated(gs, 0)
  IN \A i \in 1..Len(all) :
       all[i] = 0 \/ \E j \in 1..(i - 1) : all[j] = all[i] - 1

GroupLists ==
  {gs \in UNION {[0..(n - 1) -> Group] : n \in 0..MaxGroups} : namedInOrder(gs)}

mapHas(map, k) == \E i \in 1..Len(map) : map[i].key = k

mapGet(map, k) == map[CHOOSE i \in 1..Len(map) : map[i].key = k].value

mapSet(map, k, v) ==
  IF mapHas(map, k)
    THEN [i \in 1..Len(map) |-> IF map[i].key = k THEN [key |-> k, value |-> v]
                                                  ELSE map[i]]
    ELSE Append(map, [key |-> k, value |-> v])

mapKeys(map) == {map[i].key : i \in 1..Len(map)}

mapValues(map) == {map[i].value : i \in 1..Len(map)}

nodesOf(group) == {group[i] : i \in 1..Len(group)}

(* Reading an array with for-of or forEach leaves the array as it was.     *)
iteratedDrained(group) == <<>>

iterated(group) == group

(* A single lookup, no loop.                                               *)
getAndRedirectOnce(table, idx) == [table |-> table, idx |-> table[idx]]

RECURSIVE getAndRedirect(_, _)
getAndRedirect(table, idx) ==
  IF idx = table[idx] THEN [table |-> table, idx |-> idx]
  ELSE LET redirected == [table EXCEPT ![idx] = table[table[idx]]]
       IN getAndRedirect(redirected, redirected[idx])

(* groupIndex = setIdsByGroup[groupIndex], read after root was written.    *)
redirectedGroupIndexKept(root, groupIndex) == groupIndex

redirectedGroupIndex(root, groupIndex) == root

(* One round of for (const node of group); state is the callback's         *)
(* [setIdsByGroup, setIdsByNode, groupIndex], groupIndex being the         *)
(* parameter the callback reassigns.                                       *)
visitNode(state, node) ==
  IF mapHas(state.setIdsByNode, node)
    THEN LET root == getAndRedirect(state.setIdsByGroup,
                                    mapGet(state.setIdsByNode, node))
         IN [state EXCEPT !.setIdsByGroup =
                            [root.table EXCEPT ![state.groupIndex] = root.idx],
                          !.groupIndex =
                            redirectedGroupIndex(root.idx, state.groupIndex)]
    ELSE [state EXCEPT !.setIdsByNode = mapSet(@, node, state.groupIndex)]

RECURSIVE visitNodes(_, _)
visitNodes(state, group) ==
  IF group = <<>> THEN state
  ELSE visitNodes(visitNode(state, Head(group)), Tail(group))

markEmptyNever(table, groupIndex) == table

markEmptyAsLength(table, groupIndex) ==
  [table EXCEPT ![groupIndex] = Cardinality(DOMAIN table)]

markEmpty(table, groupIndex) == [table EXCEPT ![groupIndex] = emptyGroupId]

(* The forEach callback on the group at groupIndex.                        *)
visitGroup(table, map, gs, groupIndex) ==
  visitNodes([setIdsByGroup |-> IF Len(gs[groupIndex]) = 0
                                  THEN markEmpty(table, groupIndex) ELSE table,
              setIdsByNode |-> map,
              groupIndex |-> groupIndex],
             gs[groupIndex])

RECURSIVE forEachGroup(_, _, _, _)
forEachGroup(table, map, gs, groupIndex) ==
  IF groupIndex >= arrayLength(gs) THEN [setIdsByGroup |-> table, setIdsByNode |-> map]
  ELSE LET visited == visitGroup(table, map, gs, groupIndex)
       IN forEachGroup(visited.setIdsByGroup, visited.setIdsByNode, gs, groupIndex + 1)

(* for (const [key, groupIndex] of setIdsByNode) ...                       *)
RECURSIVE redirectNodes(_, _, _)
redirectNodes(table, map, i) ==
  IF i > Len(map) THEN [setIdsByGroup |-> table, setIdsByNode |-> map]
  ELSE LET root == getAndRedirect(table, map[i].value)
       IN redirectNodes(root.table, mapSet(map, map[i].key, root.idx), i + 1)

(* for (let groupIndex = 0; groupIndex < setIdsByGroup.length; ...) ...    *)
redirectGroupsSkipped(table, groupIndex) == table

RECURSIVE redirectGroups(_, _)
redirectGroups(table, groupIndex) ==
  IF groupIndex >= arrayLength(table) THEN table
  ELSE IF table[groupIndex] # emptyGroupId
    THEN LET target == getAndRedirect(table, groupIndex)
         IN redirectGroups([target.table EXCEPT ![groupIndex] = target.idx],
                           groupIndex + 1)
    ELSE redirectGroups(table, groupIndex + 1)

redirectAll(table, map) ==
  LET nodes == redirectNodes(table, map, 1)
  IN [setIdsByNode |-> nodes.setIdsByNode,
      setIdsByGroup |-> redirectGroups(nodes.setIdsByGroup, 0)]

separateComponents(gs) ==
  LET visited == forEachGroup([index \in DOMAIN gs |-> index], <<>>, gs, 0)
  IN redirectAll(visited.setIdsByGroup, visited.setIdsByNode)

(* groups[index].forEach((node) => nodeSet.add(node))                      *)
addAllLast(nodeSet, group) == nodesOf(group)

addAll(nodeSet, group) == nodeSet \cup nodesOf(group)

RECURSIVE collectNodes(_, _, _, _)
collectNodes(setIds, gs, index, nodesBySetId) ==
  IF index >= arrayLength(setIds) THEN nodesBySetId
  ELSE IF setIds[index] = emptyGroupId
    THEN collectNodes(setIds, gs, index + 1, nodesBySetId)
    ELSE LET setId == setIds[index]
             nodeSet == IF mapHas(nodesBySetId, setId) THEN mapGet(nodesBySetId, setId)
                        ELSE {}
         IN collectNodes(setIds, gs, index + 1,
                         mapSet(nodesBySetId, setId, addAll(nodeSet, gs[index])))

components(gs) ==
  LET nodesBySetId == collectNodes(separateComponents(gs).setIdsByGroup, gs, 0, <<>>)
  IN [index \in 0..(Len(nodesBySetId) - 1) |-> nodesBySetId[index + 1].value]

indexOfFirst(index) == 0

indexOf(index) == index

RECURSIVE componentIndexFrom(_, _, _)
componentIndexFrom(list, index, mapped) ==
  IF index >= arrayLength(list) THEN mapped
  ELSE componentIndexFrom(list, index + 1,
         [node \in DOMAIN mapped \cup list[index] |->
            IF node \in list[index] THEN indexOf(index) ELSE mapped[node]])

componentIndex(list) == componentIndexFrom(list, 0, <<>>)

(* The caller: separateComponents(groups) one group at a time, then        *)
(* components(groups) twice and componentIndex on the first list.          *)
SeparateComponentsCall ==
  /\ phase = "idle"
  /\ setIdsByGroup' = [index \in DOMAIN groups |-> index]
  /\ setIdsByNode' = <<>>
  /\ groupCursor' = 0
  /\ phase' = "forEach"
  /\ UNCHANGED <<groups, componentSets, componentSetsAgain, nodeIndex>>
  /\ UNCHANGED <<countVars, problem, history, call, pc, result, searchVars, bagVars>>

SeparateComponentsVisit ==
  /\ phase = "forEach"
  /\ groupCursor < arrayLength(groups)
  /\ LET visited == visitGroup(setIdsByGroup, setIdsByNode, groups, groupCursor)
     IN /\ setIdsByGroup' = visited.setIdsByGroup
        /\ setIdsByNode' = visited.setIdsByNode
  /\ groups' = [groups EXCEPT ![groupCursor] = iterated(@)]
  /\ groupCursor' = groupCursor + 1
  /\ UNCHANGED <<phase, componentSets, componentSetsAgain, nodeIndex>>
  /\ UNCHANGED <<countVars, problem, history, call, pc, result, searchVars, bagVars>>

SeparateComponentsReturn ==
  /\ phase = "forEach"
  /\ groupCursor = arrayLength(groups)
  /\ LET redirected == redirectAll(setIdsByGroup, setIdsByNode)
     IN /\ setIdsByGroup' = redirected.setIdsByGroup
        /\ setIdsByNode' = redirected.setIdsByNode
  /\ phase' = "separated"
  /\ UNCHANGED <<groups, groupCursor, componentSets, componentSetsAgain, nodeIndex>>
  /\ UNCHANGED <<countVars, problem, history, call, pc, result, searchVars, bagVars>>

ComponentsCall ==
  /\ phase = "separated"
  /\ componentSets' = components(groups)
  /\ groups' = [index \in DOMAIN groups |-> iterated(groups[index])]
  /\ phase' = "components"
  /\ UNCHANGED <<setIdsByGroup, setIdsByNode, groupCursor, componentSetsAgain, nodeIndex>>
  /\ UNCHANGED <<countVars, problem, history, call, pc, result, searchVars, bagVars>>

ComponentsCallAgain ==
  /\ phase = "components"
  /\ componentSetsAgain' = components(groups)
  /\ groups' = [index \in DOMAIN groups |-> iterated(groups[index])]
  /\ phase' = "again"
  /\ UNCHANGED <<setIdsByGroup, setIdsByNode, groupCursor, componentSets, nodeIndex>>
  /\ UNCHANGED <<countVars, problem, history, call, pc, result, searchVars, bagVars>>

ComponentIndexCall ==
  /\ phase = "again"
  /\ nodeIndex' = componentIndex(componentSets)
  /\ phase' = "indexed"
  /\ UNCHANGED <<groups, setIdsByGroup, setIdsByNode, groupCursor, componentSets,
                 componentSetsAgain>>
  /\ UNCHANGED <<countVars, problem, history, call, pc, result, searchVars, bagVars>>

----------------------------------------------------------------------------
(* countPaths.  The graph is the caller's: edges run from a smaller vertex *)
(* to a larger one, which makes it acyclic; successors lists the targets   *)
(* in ascending or in descending order.                                    *)

CountNodes == {0, 1, 2, 3}

CountEdges == {e \in CountNodes \X CountNodes : e[1] < e[2]}

CountProblems ==
  {[start |-> s, edges |-> E, goals |-> g, descending |-> d] :
     s \in CountNodes, E \in SUBSET CountEdges, g \in SUBSET CountNodes,
     d \in BOOLEAN}

RECURSIVE listed(_, _)
listed(S, descending) ==
  IF S = {} THEN <<>>
  ELSE LET first == CHOOSE x \in S : \A y \in S : IF descending THEN y <= x ELSE x <= y
       IN <<first>> \o listed(S \ {first}, descending)

countSuccessors(opts, node) ==
  listed({e[2] : e \in {d \in opts.edges : d[1] = node}}, opts.descending)

countSuccess(opts, node) == node \in opts.goals

cacheGet(seen, node) == IF node \in DOMAIN seen THEN seen[node] ELSE Undefined

(* count += ...                                                            *)
accumulateLast(total, n) == n

accumulate(total, n) == total + n

RECURSIVE cachedCountPaths(_, _, _)
RECURSIVE countLoop(_, _, _, _)

cachedCountPaths(opts, node, seen) ==
  LET hit == cacheGet(seen, node)
  IN IF truthy(hit) THEN [count |-> hit, cache |-> seen]
     ELSE LET counted == IF countSuccess(opts, node) THEN [count |-> 1, cache |-> seen]
                         ELSE countLoop(opts, countSuccessors(opts, node), 0, seen)
          IN [count |-> counted.count,
              cache |-> [n \in DOMAIN counted.cache \cup {node} |->
                           IF n = node THEN counted.count ELSE counted.cache[n]]]

countLoop(opts, rest, total, seen) ==
  IF rest = <<>> THEN [count |-> total, cache |-> seen]
  ELSE LET sub == cachedCountPaths(opts, Head(rest), seen)
       IN countLoop(opts, Tail(rest), accumulate(total, sub.count), sub.cache)

countPaths(opts) == cachedCountPaths(opts, opts.start, <<>>)

CountPathsCall ==
  /\ phase = "idle"
  /\ LET counted == countPaths(options)
     IN /\ count' = counted.count
        /\ cache' = counted.cache
  /\ phase' = "counted"
  /\ UNCHANGED <<options, groups, setIdsByGroup, setIdsByNode, groupCursor,
                 componentSets, componentSetsAgain, nodeIndex>>
  /\ UNCHANGED <<problem, history, call, pc, result, searchVars, bagVars>>

----------------------------------------------------------------------------
(* The graphs a behaviour may start from: at most MaxEdges weighted edges  *)
(* over Keys, every one leaving a vertex the start reaches (the lazy       *)
(* engine never sees the others), and success true of reachable vertices   *)
(* only.                                                                   *)

RECURSIVE reachFrom(_, _)
reachFrom(E, S) ==
  LET T == S \cup {e[2] : e \in {d \in E : d[1] \in S}}
  IN IF T = S THEN S ELSE reachFrom(E, T)

(* The start is vertex 0 or vertex 1; the vertices other than 0 are alike.  *)
Starts == {0, 1}

EdgeSets == {E \in SUBSET (Keys \X Keys) : Cardinality(E) <= MaxEdges}

Problems ==
  UNION {UNION {{[start |-> s, edges |-> w, goals |-> g] :
                   w \in [E -> Weights], g \in SUBSET reachFrom(E, {s})} :
                E \in {F \in EdgeSets : \A e \in F : e[1] \in reachFrom(F, {s})}} :
         s \in Starts}

(* Before the first call of the search engines, of the components family   *)
(* and of countPaths.                                                      *)
SearchIdle ==
  /\ history = <<>>
  /\ call = [slot |-> "none", fn |-> "none", heuristic |-> zeroHeuristic,
             maxCost |-> Undefined]
  /\ pc = "idle"
  /\ toSee = {}
  /\ encounteredNodes = <<>>
  /\ holder = noHolder
  /\ popped = noHolder
  /\ pending = <<>>
  /\ closed = {}
  /\ minCost = Undefined
  /\ sinks = <<>>
  /\ path = <<>>
  /\ stack = <<>>
  /\ yielded = <<>>
  /\ again = <<>>
  /\ result = <<>>

ComponentsIdle ==
  /\ phase = "idle"
  /\ setIdsByGroup = <<>>
  /\ setIdsByNode = <<>>
  /\ groupCursor = 0
  /\ componentSets = <<>>
  /\ componentSetsAgain = <<>>
  /\ nodeIndex = <<>>

CountIdle ==
  /\ cache = <<>>
  /\ count = 0

noProblem == [start |-> 0, edges |-> <<>>, goals |-> {}]

noOptions == [start |-> 0, edges |-> {}, goals |-> {}, descending |-> FALSE]

Init ==
  /\ problem \in Problems
  /\ SearchIdle
  /\ groups = <<>>
  /\ ComponentsIdle
  /\ options = noOptions
  /\ CountIdle

Next ==
  \/ DijkstraCall
  \/ DijkstraPop
  \/ DijkstraExpand
  \/ AStarCall
  \/ AStarPop
  \/ AStarExpand
  \/ AStarBagCall
  \/ AStarBagPop
  \/ AStarBagExpand
  \/ AStarBagReturn
  \/ GeneratorStart
  \/ GeneratorStep
  \/ GeneratorIterateAgain
  \/ Finish

Spec == Init /\ [][Next]_vars

(* The same caller on the graphs of one more edge in which a key that two  *)
(* other keys lead to has a successor of its own: a key that can be        *)
(* reached a second time, at a lower cost, and has something to expand.    *)
revisited(E) ==
  \E k \in Keys :
    /\ Cardinality({e \in E : e[2] = k /\ e[1] # k}) >= 2
    /\ \E e \in E : e[1] = k /\ e[2] # k

WiderEdgeSets ==
  {E \in SUBSET (Keys \X Keys) : Cardinality(E) = MaxEdges + 1 /\ revisited(E)}

(* The vertices being alike, vertex 1 is the start.                        *)
WiderProblems ==
  UNION {{[start |-> 1, edges |-> w, goals |-> g] :
            w \in [E -> Weights], g \in SUBSET reachFrom(E, {1})} :
         E \in {F \in WiderEdgeSets : \A e \in F : e[1] \in reachFrom(F, {1})}}

InitWider ==
  /\ problem \in WiderProblems
  /\ SearchIdle
  /\ groups = <<>>
  /\ ComponentsIdle
  /\ options = noOptions
  /\ CountIdle

SpecWider == InitWider /\ [][Next]_vars

(* The caller on the graphs that have a cycle of cost zero, start 1; every *)
(* step the caller or a running call can take is taken in the end.         *)
zeroEdges(w) == {e \in DOMAIN w : w[e] = zero}

onZeroCostCycle(w, k) ==
  k \in reachFrom(zeroEdges(w), {e[2] : e \in {d \in zeroEdges(w) : d[1] = k}})

LiveProblems ==
  {p \in Problems : p.start = 1 /\ \E k \in Keys : onZeroCostCycle(p.edges, k)}

InitLive ==
  /\ problem \in LiveProblems
  /\ SearchIdle
  /\ groups = <<>>
  /\ ComponentsIdle
  /\ options = noOptions
  /\ CountIdle

SpecLive == InitLive /\ [][Next]_vars /\ WF_vars(Next)

(* The caller of the components family, on every list of groups.           *)
InitComponents ==
  /\ groups \in GroupLists
  /\ ComponentsIdle
  /\ problem = noProblem
  /\ SearchIdle
  /\ options = noOptions
  /\ CountIdle

NextComponents ==
  \/ SeparateComponentsCall
  \/ SeparateComponentsVisit
  \/ SeparateComponentsReturn
  \/ ComponentsCall
  \/ ComponentsCallAgain
  \/ ComponentIndexCall

SpecComponents == InitComponents /\ [][NextComponents]_vars

(* The caller of countPaths, on every acyclic graph.                       *)
InitCountPaths ==
  /\ options \in CountProblems
  /\ CountIdle
  /\ groups = <<>>
  /\ ComponentsIdle
  /\ problem = noProblem
  /\ SearchIdle

NextCountPaths == CountPathsCall

SpecCountPaths == InitCountPaths /\ [][NextCountPaths]_vars

----------------------------------------------------------------------------
(* Vocabulary of the properties.                                           *)

returned(fn) == pc = "returned" /\ call.fn = fn

(* The value the public function of the running call returned.             *)
returnValue ==
  IF call.fn = "dijkstraInternal" THEN dijkstra(encounteredNodes, result) ELSE result

summaryOf(slotName) ==
  history[CHOOSE i \in 1 .. Len(history) : history[i].slot = slotName]

(* Nodes with the same key are the same node to the search, so an edge is  *)
(* recognised by the key of the successor it leads to.                     *)
isEdge(a, b) ==
  \E i \in 1 .. Len(successors(a)) : key(successors(a)[i][1]) = key(b)

RECURSIVE pathCost(_)
pathCost(p) ==
  IF Len(p) <= 1 THEN zero
  ELSE add(problem.edges[<<p[1].k, p[2].k>>], pathCost(Tail(p)))

(* p leads from the start node to a success node along edges that          *)
(* successors produces, and its edge costs add up to cost.                 *)
realPath(p, cost) ==
  /\ Len(p) >= 1
  /\ p[1] = startNode
  /\ success(p[Len(p)])
  /\ \A i \in 1 .. (Len(p) - 1) : isEdge(p[i], p[i + 1])
  /\ pathCost(p) = cost

distinctKeys(p) == \A i, j \in 1 .. Len(p) : i # j => key(p[i]) # key(p[j])

RECURSIVE zeroReach(_, _)
zeroReach(S, n) ==
  IF n = 0 THEN S
  ELSE zeroReach(S \cup {e[2] : e \in {d \in DOMAIN problem.edges :
                                        d[1] \in S /\ problem.edges[d] = 0}}, n - 1)

(* Some cycle of the graph, a self-loop included, has only zero-cost edges. *)
zeroCostCycle ==
  \E e \in DOMAIN problem.edges :
     problem.edges[e] = 0 /\ e[1] \in zeroReach({e[2]}, NumNodes)

----------------------------------------------------------------------------
(* C1: with non-negative edge costs and a heuristic that never exceeds the *)
(* real remaining cost, the cost aStar returns is the minimum cost of a    *)
(* path from start to a success node.                                      *)
C1_AStarCostIsOptimal ==
  (returned("aStar") /\ goalReachable) =>
     (result # <<>> /\ result[2] = optimalCost)

(* aStar has returned cost 2 under a heuristic that is not zero, on a      *)
(* graph with a cheaper-looking first edge to compare routes on.           *)
C1_Witness ==
  /\ returned("aStar")
  /\ call.slot = "aStar"
  /\ call.heuristic # zeroHeuristic
  /\ result # <<>>
  /\ result[2] = 2
  /\ Cardinality(DOMAIN problem.edges) = MaxEdges

(* C2: dijkstra without maxCost returns the minimum cost; a maxCost at or  *)
(* above the optimal cost changes neither the cost returned nor whether a  *)
(* result is found.                                                        *)
C2_DijkstraCeilingAtOrAboveOptimum ==
  returned("dijkstraInternal") =>
     /\ (call.maxCost = Undefined /\ goalReachable) =>
           (returnValue # <<>> /\ returnValue[2] = optimalCost)
     /\ (call.maxCost # Undefined /\ (~goalReachable \/ call.maxCost >= optimalCost)) =>
           /\ (returnValue # <<>>) = summaryOf("dijkstra").found
           /\ returnValue # <<>> => returnValue[2] = summaryOf("dijkstra").cost

(* dijkstra has returned a result whose cost is exactly its maxCost.       *)
C2_Witness ==
  /\ returned("dijkstraInternal")
  /\ call.maxCost # Undefined
  /\ call.maxCost = optimalCost
  /\ call.maxCost > 0
  /\ result # Undefined

(* C3: a returned [path, cost] starts at the start node, ends at a success *)
(* node, follows edges of successors and adds up to cost, whatever the     *)
(* keys are (the identity key on 0, 1, 2 included).                        *)
C3_ReturnedPathIsReal ==
  ((returned("aStar") \/ returned("dijkstraInternal")) /\ returnValue # <<>>) =>
     realPath(returnValue[1], returnValue[2])

(* C4: the paths aStarBag yields are exactly the minimum-cost paths from   *)
(* start to a success node, and each yielded path is a real path of the    *)
(* returned cost.                                                          *)
keysOf(p) == [i \in 1 .. Len(p) |-> key(p[i])]

optimalKeyPaths ==
  {q \in UNION {[1 .. n -> Keys] : n \in 1 .. NumNodes} :
     /\ q[1] = problem.start
     /\ q[Len(q)] \in problem.goals
     /\ \A i \in 1 .. (Len(q) - 1) : <<q[i], q[i + 1]>> \in DOMAIN problem.edges
     /\ \A i, j \in 1 .. Len(q) : i # j => q[i] # q[j]
     /\ pathCost([i \in 1 .. Len(q) |-> [k |-> q[i]]]) = optimalCost}

C4_BagYieldsExactlyTheOptimalPaths ==
  (call.fn = "aStarBag" /\ pc \in {"returned", "threw"} /\ result # <<>>) =>
     /\ pc = "returned"
     /\ {keysOf(yielded[i]) : i \in 1 .. Len(yielded)} = optimalKeyPaths
     /\ \A i \in 1 .. Len(yielded) : realPath(yielded[i], result[2])

(* C5: aStar with the zero heuristic and dijkstra without maxCost agree on *)
(* whether a result exists and on its cost, and aStar with any admissible  *)
(* heuristic returns that same cost.                                       *)
C5_AStarAgreesWithDijkstra ==
  (returned("aStar") /\ call.slot \in {"aStarZero", "aStar"}) =>
     /\ (result # <<>>) = summaryOf("dijkstra").found
     /\ result # <<>> => result[2] = summaryOf("dijkstra").cost
     /\ call.slot = "aStar" =>
          /\ (result # <<>>) = summaryOf("aStarZero").found
          /\ result # <<>> => result[2] = summaryOf("aStarZero").cost

(* aStar under a non-zero heuristic has returned the cost dijkstra         *)
(* returned before it, a cost of at least 1.                               *)
C5_Witness ==
  /\ returned("aStar")
  /\ call.slot = "aStar"
  /\ \E k \in Keys : call.heuristic[k] > 0
  /\ result # <<>>
  /\ summaryOf("dijkstra").found
  /\ summaryOf("dijkstra").cost = result[2]
  /\ result[2] >= 1

(* C6: without a cost ceiling aStar, dijkstra and aStarBag return          *)
(* undefined, and dijkstraPartial an undefined success node, exactly when  *)
(* no success node is reachable from start.                                *)
C6_UndefinedIffNoGoalReachable ==
  (call.maxCost = Undefined /\ pc \in {"returned", "returnedPaths"}) =>
     /\ call.fn \in {"aStar", "aStarBag"} => ((result = <<>>) <=> ~goalReachable)
     /\ call.fn = "dijkstraInternal" =>
          /\ (dijkstra(encounteredNodes, result) = <<>>) <=> ~goalReachable
          /\ (dijkstraPartial(encounteredNodes, result)[2] = <<>>) <=> ~goalReachable

(* aStarBag has returned undefined after registering every vertex of a     *)
(* graph none of whose vertices satisfies success.                         *)
C6_Witness ==
  /\ returned("aStarBag")
  /\ call.maxCost = Undefined
  /\ result = <<>>
  /\ ~goalReachable
  /\ DOMAIN encounteredNodes = Keys

(* C7: with maxCost configured the dijkstra family never registers or      *)
(* pushes a successor whose cost exceeds maxCost, and reports no success   *)
(* node when maxCost is below the optimal cost.                            *)
C7_CeilingPrunes ==
  (call.fn = "dijkstraInternal" /\ call.maxCost # Undefined) =>
     /\ \A k \in DOMAIN encounteredNodes \ {key(startNode)} :
          compareFn(encounteredNodes[k].cost, call.maxCost) <= 0
     /\ \A e \in toSee :
          e.nodeKey # key(startNode) => compareFn(e.cost, call.maxCost) <= 0
     /\ (pc = "returned" /\ call.maxCost < optimalCost) => result = Undefined

(* dijkstra has returned no success node although one is reachable: the    *)
(* ceiling is below the optimal cost and a successor was left out of the   *)
(* registry.                                                               *)
C7_Witness ==
  /\ returned("dijkstraInternal")
  /\ call.maxCost # Undefined
  /\ goalReachable
  /\ call.maxCost < optimalCost
  /\ result = Undefined
  /\ \E e \in DOMAIN problem.edges :
       e[1] \in DOMAIN encounteredNodes /\ e[2] \notin DOMAIN encounteredNodes

(* C8: aStar and aStarBag given a maxCost below the optimal cost return    *)
(* undefined.                                                              *)
C8_AStarCeilingBelowOptimum ==
  (pc \in {"returned", "returnedPaths"} /\ call.fn \in {"aStar", "aStarBag"}
     /\ call.maxCost # Undefined /\ call.maxCost < optimalCost) =>
        result = <<>>

(* C9: in aStarBag the recorded parent sets are acyclic, the enumeration   *)
(* of paths ends, and no yielded path holds two nodes of one key.          *)
RECURSIVE bagAncestors(_)
bagAncestors(S) ==
  LET T == S \cup UNION {{encounteredNodes[k].parentKeys[i] :
                            i \in 1 .. Len(encounteredNodes[k].parentKeys)} : k \in S}
  IN IF T = S THEN S ELSE bagAncestors(T)

bagParentsOf(k) ==
  {encounteredNodes[k].parentKeys[i] : i \in 1 .. Len(encounteredNodes[k].parentKeys)}

C9_BagParentsAcyclic ==
  call.fn = "aStarBag" =>
     /\ \A k \in DOMAIN encounteredNodes : k \notin bagAncestors(bagParentsOf(k))
     /\ pc # "threw"
     /\ \A i \in 1 .. Len(yielded) : distinctKeys(yielded[i])

(* C10: in aStar and the dijkstra family the parentKey chain of every      *)
(* registered key reaches the start key without visiting a key twice, and  *)
(* no path built from the registry holds two nodes of one key, zero-cost   *)
(* cycles included.                                                        *)
RECURSIVE chainReachesStart(_, _, _)
chainReachesStart(nodes, k, hops) ==
  IF k = key(startNode) THEN nodes[k].parentKey = Undefined
  ELSE IF hops = 0 THEN FALSE
  ELSE /\ nodes[k].parentKey \in DOMAIN nodes
       /\ chainReachesStart(nodes, nodes[k].parentKey, hops - 1)

C10_ParentChainsReachStart ==
  call.fn \in {"aStar", "dijkstraInternal"} =>
     /\ \A k \in DOMAIN encounteredNodes :
          chainReachesStart(encounteredNodes, k, Cardinality(DOMAIN encounteredNodes) - 1)
     /\ \A k \in DOMAIN encounteredNodes : distinctKeys(buildPath(k, encounteredNodes))
     /\ (pc = "returned" /\ returnValue # <<>>) => distinctKeys(returnValue[1])

(* A search over a graph with a zero-cost cycle has returned, and its       *)
(* registry holds a chain of two parent links that leads to the start.     *)
C10_Witness ==
  /\ call.fn \in {"aStar", "dijkstraInternal"}
  /\ pc = "returned"
  /\ zeroCostCycle
  /\ DOMAIN encounteredNodes = Keys
  /\ \E k \in DOMAIN encounteredNodes :
       /\ encounteredNodes[k].parentKey \in DOMAIN encounteredNodes
       /\ encounteredNodes[k].parentKey # key(startNode)

----------------------------------------------------------------------------
(* C11: without maxCost the map dijkstraAll returns has exactly the keys   *)
(* reachable from start; the start entry has no parent and cost zero; each *)
(* other entry holds the minimum cost from start and a parent of the map   *)
(* whose cost plus the cost of an edge parent -> key is the entry's cost.  *)
(* dijkstraAll runs dijkstraInternal with success: () => false, which is   *)
(* the run on a graph none of whose vertices satisfies success.            *)
reachableKeys == reachFrom(DOMAIN problem.edges, {problem.start})

costFromStart(k) == costTo({k})[problem.start]

dijkstraAllReturned ==
  returned("dijkstraInternal") /\ problem.goals = {} /\ call.maxCost = Undefined

C11_DijkstraAllMapIsShortestPathTree ==
  dijkstraAllReturned =>
     LET map == dijkstraAll(encounteredNodes)
     IN /\ DOMAIN map = reachableKeys
        /\ map[key(startNode)].parentKey = Undefined
        /\ map[key(startNode)].cost = zero
        /\ \A k \in DOMAIN map \ {key(startNode)} :
             /\ map[k].cost = costFromStart(k)
             /\ map[k].parentKey \in DOMAIN map
             /\ <<map[k].parentKey, k>> \in DOMAIN problem.edges
             /\ add(map[map[k].parentKey].cost, problem.edges[<<map[k].parentKey, k>>])
                  = map[k].cost

(* dijkstraAll has returned a map of all three vertices in which one       *)
(* vertex is entered under another vertex than the start, although the     *)
(* start has an edge to it too: the cheaper route replaced the direct one. *)
C11_Witness ==
  /\ dijkstraAllReturned
  /\ DOMAIN encounteredNodes = Keys
  /\ \E k \in Keys :
       /\ encounteredNodes[k].parentKey \notin {Undefined, key(startNode)}
       /\ <<problem.start, k>> \in DOMAIN problem.edges
       /\ encounteredNodes[k].cost < problem.edges[<<problem.start, k>>]

----------------------------------------------------------------------------
(* C12: every entry of the map dijkstraPartial returns, also when the      *)
(* search stopped at a success node, records the minimum cost from start   *)
(* to its key and a parent that lies on a minimum-cost path to that key.   *)
onMinimumCostPath(p, k) ==
  /\ <<p, k>> \in DOMAIN problem.edges
  /\ add(costFromStart(p), problem.edges[<<p, k>>]) = costFromStart(k)

C12_PartialMapHoldsMinimumCosts ==
  (returned("dijkstraInternal") /\ call.maxCost = Undefined) =>
     LET map == dijkstraPartial(encounteredNodes, result)[1]
     IN \A k \in DOMAIN map :
          /\ map[k].cost = costFromStart(k)
          /\ k # key(startNode) => onMinimumCostPath(map[k].parentKey, k)

----------------------------------------------------------------------------
(* C13: for every key k of a map returned by dijkstraAll or                *)
(* dijkstraPartial, buildPath(k, map) starts with the start node, ends     *)
(* with the node stored under k and has one element more than there are    *)
(* parent hops from k back to the start, identity keys 0, 1, 2 included.   *)
RECURSIVE parentHops(_, _, _)
parentHops(nodes, k, fuel) ==
  IF nodes[k].parentKey = Undefined \/ fuel = 0 THEN 0
  ELSE 1 + parentHops(nodes, nodes[k].parentKey, fuel - 1)

C13_BuildPathSpansStartToTarget ==
  returned("dijkstraInternal") =>
     LET map == dijkstraPartial(encounteredNodes, result)[1]
     IN \A k \in DOMAIN map :
          LET p == buildPath(k, map)
          IN /\ Len(p) = parentHops(map, k, NumNodes) + 1
             /\ p[1] = startNode
             /\ p[Len(p)] = map[k].node

(* C14: buildPath returns an empty sequence only for a target key that is  *)
(* absent from the registry; for a key that is present the result is not   *)
(* empty and ends with that key's node.                                    *)
C14_BuildPathEmptyOnlyForAbsentKey ==
  call.fn \in {"dijkstraInternal", "aStar"} =>
     /\ \A k \in DOMAIN encounteredNodes :
          /\ buildPath(k, encounteredNodes) # <<>>
          /\ buildPath(k, encounteredNodes)[Len(buildPath(k, encounteredNodes))]
               = encounteredNodes[k].node
     /\ \A k \in Keys \ DOMAIN encounteredNodes : buildPath(k, encounteredNodes) = <<>>

----------------------------------------------------------------------------
(* C15: in every engine the node value stored for a key is the first one   *)
(* discovered with that key: no step of a call replaces the node of an     *)
(* entry, not even a step that finds the key at a lower cost.              *)
withinCall == pc # "idle"

C15_FirstNodeValueIsKept ==
  [][withinCall =>
       \A k \in DOMAIN encounteredNodes :
          /\ k \in DOMAIN encounteredNodes'
          /\ encounteredNodes'[k].node = encounteredNodes[k].node]_vars

----------------------------------------------------------------------------
(* C16: within one call the cost recorded for a key never increases; an    *)
(* entry of a single-parent engine is rewritten only with a strictly       *)
(* smaller cost; and after each visit of a successor the recorded cost of  *)
(* its key is the smallest cumulative cost the key was reached with so     *)
(* far: the smaller of the cost recorded before and the new cost.          *)
visitedSuccessorKey == key(Head(pending)[1])

visitedNewCost == add(holder.cost, Head(pending)[2])

visitSkipped ==
  call.fn = "dijkstraInternal" /\ dijkstraOverMaxCost(visitedNewCost, call.maxCost)

C16_RegistryCostOnlyDecreases ==
  [][withinCall =>
       /\ \A k \in DOMAIN encounteredNodes :
            /\ k \in DOMAIN encounteredNodes'
            /\ compareFn(encounteredNodes'[k].cost, encounteredNodes[k].cost) <= 0
            /\ (call.fn \in {"aStar", "dijkstraInternal"}
                  /\ encounteredNodes'[k] # encounteredNodes[k]) =>
                 compareFn(encounteredNodes'[k].cost, encounteredNodes[k].cost) < 0
       /\ (pc = "expand" /\ ~visitSkipped) =>
            /\ visitedSuccessorKey \in DOMAIN encounteredNodes'
            /\ encounteredNodes'[visitedSuccessorKey].cost =
                 IF visitedSuccessorKey \in DOMAIN encounteredNodes
                   THEN Smallest({encounteredNodes[visitedSuccessorKey].cost,
                                  visitedNewCost})
                   ELSE visitedNewCost]_vars

(* A key was reached a second time at a lower cost: the frontier still     *)
(* holds the holder pushed for its earlier, higher cost.                   *)
C16_Witness ==
  /\ withinCall
  /\ \E e \in toSee :
       /\ e.nodeKey \in DOMAIN encounteredNodes
       /\ compareFn(e.cost, encounteredNodes[e.nodeKey].cost) > 0

----------------------------------------------------------------------------
(* C17: once a key has been popped from the frontier as a minimum entry    *)
(* that was not stale, no later step of the call changes its registry cost *)
(* or its parent.  As stated for every engine under any admissible         *)
(* heuristic:                                                              *)
parentOf(entry) ==
  IF call.fn = "aStarBag" THEN entry.parentKeys ELSE entry.parentKey

C17_PoppedEntryIsFinal ==
  [][withinCall =>
       \A k \in closed :
          /\ encounteredNodes'[k].cost = encounteredNodes[k].cost
          /\ parentOf(encounteredNodes'[k]) = parentOf(encounteredNodes[k])]_vars

(* A heuristic is consistent when it never drops along an edge by more     *)
(* than the cost of the edge; the zero heuristic of the dijkstra family    *)
(* is.                                                                      *)
Consistent(h) ==
  \A e \in DOMAIN problem.edges : h[e[1]] <= add(problem.edges[e], h[e[2]])

(* What holds instead: under a consistent heuristic the cost of a popped   *)
(* key is final in every engine, and so is its parent in the engines that  *)
(* keep one parent; aStarBag may still add parents of equal cost.          *)
C17_PoppedEntryIsFinalIfConsistent ==
  [][(withinCall /\ Consistent(call.heuristic)) =>
       \A k \in closed :
          /\ encounteredNodes'[k].cost = encounteredNodes[k].cost
          /\ call.fn \in {"aStar", "dijkstraInternal"} =>
               encounteredNodes'[k].parentKey = encounteredNodes[k].parentKey]_vars

(* aStar, under a heuristic that is consistent and not zero, has expanded  *)
(* two keys, and a cheaper-looking route to one of them was visited after  *)
(* it had been popped: the frontier is empty of its key although a         *)
(* successor visit reached it again.                                       *)
C17_Witness ==
  /\ call.fn = "aStar"
  /\ pc = "expand"
  /\ Consistent(call.heuristic)
  /\ call.heuristic # zeroHeuristic
  /\ Cardinality(closed) >= 2
  /\ visitedSuccessorKey \in closed \ {key(startNode)}

----------------------------------------------------------------------------
(* C18: the sequence of paths aStarBag returns can be iterated again: a    *)
(* second iteration, made after a first full one, yields the same set of   *)
(* paths as the first.                                                     *)
pathSet(list) == {list[i] : i \in 1 .. Len(list)}

C18_PathsAreRestartable ==
  (call.fn = "aStarBag" /\ again # <<>>) => pathSet(again[1]) = pathSet(yielded)

----------------------------------------------------------------------------
(* C19: aStarBag returns undefined exactly when aStar does; otherwise the  *)
(* cost it returns is the cost aStar returns, and every path it yields has *)
(* that total cost.                                                        *)
bagHasReturned ==
  call.slot = "aStarBag" /\ pc \in {"returnedPaths", "iterating", "returned", "threw"}

C19_BagAgreesWithAStar ==
  bagHasReturned =>
     /\ (result # <<>>) = summaryOf("aStar").found
     /\ result # <<>> => result[2] = summaryOf("aStar").cost
     /\ \A i \in 1 .. Len(yielded) : pathCost(yielded[i]) = result[2]

(* aStarBag has yielded two paths of the cost aStar returned before it, a  *)
(* cost of at least 1.                                                     *)
C19_Witness ==
  /\ bagHasReturned
  /\ pc = "returned"
  /\ result # <<>>
  /\ summaryOf("aStar").found
  /\ summaryOf("aStar").cost = result[2]
  /\ result[2] >= 1
  /\ Len(yielded) >= 2

----------------------------------------------------------------------------
(* C20: in aStarBag, under a heuristic that never overestimates, the       *)
(* recorded minimum goal cost keeps the value the first success pop gave   *)
(* it, and at return every key recorded as a sink has a registry cost      *)
(* equal to the returned cost.                                             *)
C20_MinCostIsSetOnce ==
  /\ [][(withinCall /\ call.fn = "aStarBag" /\ minCost # Undefined) =>
          minCost' = minCost]_vars
  /\ []((call.fn = "aStarBag" /\ pc \in {"returnedPaths", "iterating", "returned", "threw"}
           /\ result # <<>>) =>
          \A i \in 1 .. Len(sinks) : encounteredNodes[sinks[i]].cost = result[2])

(* aStarBag has returned a cost of at least 1 with two sinks recorded: the *)
(* second success pop found minCost already set.                           *)
C20_Witness ==
  /\ call.fn = "aStarBag"
  /\ pc = "returnedPaths"
  /\ Len(sinks) = 2
  /\ result[2] >= 1

----------------------------------------------------------------------------
(* Vocabulary of the properties of the components family.                  *)

allVertices(gs) == UNION {nodesOf(gs[index]) : index \in DOMAIN gs}

(* The vertices tied to those of S through a chain of groups.              *)
RECURSIVE connectedTo(_, _)
connectedTo(gs, S) ==
  LET T == S \cup UNION {nodesOf(gs[index]) :
                           index \in {j \in DOMAIN gs : nodesOf(gs[j]) \cap S # {}}}
  IN IF T = S THEN S ELSE connectedTo(gs, T)

shareGroup(gs, u, v) == \E index \in DOMAIN gs : {u, v} \subseteq nodesOf(gs[index])

separated == phase \in {"separated", "components", "again", "indexed"}

(* C21: once separateComponents(groups) has returned, two vertices carry   *)
(* the same set id in setIdsByNode exactly when a chain of groups ties     *)
(* them together, for every order of the groups and of their vertices.     *)
C21_SameSetIdIffConnected ==
  separated =>
    \A u, v \in allVertices(groups) :
      /\ mapHas(setIdsByNode, u)
      /\ mapHas(setIdsByNode, v)
      /\ (mapGet(setIdsByNode, u) = mapGet(setIdsByNode, v))
           <=> (v \in connectedTo(groups, {u}))

(* Two vertices no group holds together end in one set, next to a vertex   *)
(* of another set.                                                         *)
C21_Witness ==
  /\ phase = "separated"
  /\ \E u, v, w \in allVertices(groups) :
       /\ u # v
       /\ ~shareGroup(groups, u, v)
       /\ mapGet(setIdsByNode, u) = mapGet(setIdsByNode, v)
       /\ mapGet(setIdsByNode, w) # mapGet(setIdsByNode, u)

----------------------------------------------------------------------------
visitsEmptyGroup ==
  /\ phase = "forEach"
  /\ groupCursor < arrayLength(groups)
  /\ Len(groups[groupCursor]) = 0

(* C22: in the result of separateComponents an entry of setIdsByGroup is   *)
(* -1 exactly when its group is empty, -1 is no value of setIdsByNode, and *)
(* the visit of an empty group changes no set id of a vertex and no entry  *)
(* of another group.                                                       *)
C22_EmptyGroupsAreMarkedAndInert ==
  /\ [](separated =>
          /\ \A index \in DOMAIN groups :
               (setIdsByGroup[index] = emptyGroupId) <=> (Len(groups[index]) = 0)
          /\ emptyGroupId \notin mapValues(setIdsByNode))
  /\ [][visitsEmptyGroup =>
          /\ setIdsByNode' = setIdsByNode
          /\ \A index \in DOMAIN groups :
               index # groupCursor => setIdsByGroup'[index] = setIdsByGroup[index]]_vars

(* An empty group stands between two groups that share a vertex.           *)
C22_Witness ==
  /\ phase = "separated"
  /\ arrayLength(groups) = 3
  /\ Len(groups[1]) = 0
  /\ nodesOf(groups[0]) \cap nodesOf(groups[2]) # {}
  /\ setIdsByGroup[1] = emptyGroupId
  /\ setIdsByGroup[2] = 0

----------------------------------------------------------------------------
(* C23: in the result of separateComponents every vertex of a non-empty    *)
(* group carries in setIdsByNode the set id setIdsByGroup gives the group. *)
C23_NodeAndGroupIdsAgree ==
  separated =>
    \A index \in DOMAIN groups :
      \A v \in nodesOf(groups[index]) :
        /\ mapHas(setIdsByNode, v)
        /\ mapGet(setIdsByNode, v) = setIdsByGroup[index]

(* The third group joined the sets of the first two: the first group and   *)
(* the third both end under the id of the second.                          *)
C23_Witness ==
  /\ phase = "separated"
  /\ arrayLength(groups) = 3
  /\ nodesOf(groups[0]) \cap nodesOf(groups[1]) = {}
  /\ setIdsByGroup = [index \in DOMAIN groups |-> 1]

----------------------------------------------------------------------------
groupIndices == 0..(arrayLength(groups) - 1)

(* C24: every value of setIdsByNode, and every entry of setIdsByGroup      *)
(* other than -1, is an index of groups; setIdsByGroup has one entry per   *)
(* group, at the group's index, and the returned setIdsByNode has exactly  *)
(* one entry per distinct vertex of groups.                                *)
C24_SetIdsAreGroupIndices ==
  /\ (phase # "idle" =>
        /\ DOMAIN setIdsByGroup = DOMAIN groups
        /\ \A index \in DOMAIN setIdsByGroup :
             setIdsByGroup[index] \in groupIndices \cup {emptyGroupId}
        /\ mapValues(setIdsByNode) \subseteq groupIndices)
  /\ (separated =>
        /\ mapKeys(setIdsByNode) = allVertices(groups)
        /\ Len(setIdsByNode) = Cardinality(allVertices(groups)))

(* Three groups, one of them empty, over vertices that repeat: fewer       *)
(* entries in setIdsByNode than vertex occurrences in groups.              *)
C24_Witness ==
  /\ phase = "separated"
  /\ arrayLength(groups) = 3
  /\ emptyGroupId \in {setIdsByGroup[index] : index \in DOMAIN groups}
  /\ Len(setIdsByNode) = 2
  /\ \E index \in DOMAIN groups :
       Len(groups[index]) = 2 /\ Cardinality(nodesOf(groups[index])) = 1
  /\ Cardinality(mapValues(setIdsByNode)) = 2

----------------------------------------------------------------------------
componentsReturned == phase \in {"components", "again", "indexed"}

(* C25: components(groups) returns non-empty, pairwise disjoint sets whose *)
(* union is the vertices of groups; two vertices lie in one set exactly    *)
(* when a chain of groups ties them together, and an empty group adds      *)
(* neither a set nor a vertex.                                             *)
C25_ComponentsPartitionTheVertices ==
  componentsReturned =>
    /\ \A i \in DOMAIN componentSets : componentSets[i] # {}
    /\ \A i, j \in DOMAIN componentSets :
         i # j => componentSets[i] \cap componentSets[j] = {}
    /\ UNION {componentSets[i] : i \in DOMAIN componentSets} = allVertices(groups)
    /\ \A u, v \in allVertices(groups) :
         (\E i \in DOMAIN componentSets : {u, v} \subseteq componentSets[i])
           <=> (v \in connectedTo(groups, {u}))
    /\ arrayLength(componentSets)
         = Cardinality({connectedTo(groups, {u}) : u \in allVertices(groups)})

(* Next to an empty group, two groups were merged into a set larger than   *)
(* either of them.                                                         *)
C25_Witness ==
  /\ phase = "components"
  /\ \E index \in DOMAIN groups : Len(groups[index]) = 0
  /\ \E i \in DOMAIN componentSets : Cardinality(componentSets[i]) = 3

----------------------------------------------------------------------------
(* C26: for the list c that components(groups) returned, the domain of     *)
(* componentIndex(c) is the set of vertices of groups, and each vertex is  *)
(* mapped to the one index i whose set c[i] holds it.                      *)
C26_ComponentIndexInvertsComponents ==
  phase = "indexed" =>
    /\ DOMAIN nodeIndex = allVertices(groups)
    /\ \A v \in DOMAIN nodeIndex :
         /\ nodeIndex[v] \in DOMAIN componentSets
         /\ \A i \in DOMAIN componentSets :
              (v \in componentSets[i]) <=> (i = nodeIndex[v])

(* Two sets, the second one merged from two groups: its vertices are all   *)
(* mapped to index 1.                                                      *)
C26_Witness ==
  /\ phase = "indexed"
  /\ arrayLength(componentSets) = 2
  /\ Cardinality(componentSets[1]) = 3
  /\ \A v \in componentSets[1] : nodeIndex[v] = 1

----------------------------------------------------------------------------
----------------------------------------------------------------------------
(* Vocabulary of the properties of countPaths.                             *)

(* The paths from node that stop at the first success node they reach.     *)
RECURSIVE pathsFrom(_, _)
pathsFrom(opts, node) ==
  IF node \in opts.goals THEN {<<node>>}
  ELSE UNION {{<<node>> \o p : p \in pathsFrom(opts, e[2])} :
                e \in {d \in opts.edges : d[1] = node}}

(* The count of a node by the three cases, with no cache.                  *)
RECURSIVE sumOver(_, _)
RECURSIVE countFrom(_, _)
sumOver(opts, S) ==
  IF S = {} THEN 0
  ELSE LET n == CHOOSE x \in S : TRUE
       IN countFrom(opts, n) + sumOver(opts, S \ {n})

countFrom(opts, node) ==
  IF node \in opts.goals THEN 1
  ELSE sumOver(opts, {e[2] : e \in {d \in opts.edges : d[1] = node}})

(* C28: on an acyclic graph countPaths returns the number of paths from    *)
(* start that stop at the first success node they reach: 1 for a success   *)
(* node, 0 for a node without success and without successors, the sum of   *)
(* the successors' counts otherwise; the cache holds the same counts, so   *)
(* a count read from it is the count computed afresh.                      *)
C28_CountPathsCountsPathsToFirstSuccess ==
  phase = "counted" =>
    /\ count = Cardinality(pathsFrom(options, options.start))
    /\ count = countFrom(options, options.start)
    /\ \A node \in DOMAIN cache :
         /\ cache[node] = countFrom(options, node)
         /\ cache[node] = Cardinality(pathsFrom(options, node))

(* Two paths were counted, past a dead end, and the count of a node with   *)
(* two visited predecessors was asked for twice.                           *)
C28_Witness ==
  /\ phase = "counted"
  /\ count >= 2
  /\ \E node \in DOMAIN cache : cache[node] = 0
  /\ \E node \in DOMAIN cache :
       /\ cache[node] >= 1
       /\ Cardinality({e \in options.edges :
                          /\ e[2] = node
                          /\ e[1] \in DOMAIN cache
                          /\ e[1] \notin options.goals}) = 2

----------------------------------------------------------------------------
poppedHolder == CHOOSE h \in toSee \ toSee' : TRUE

popsStaleHolder ==
  /\ pc = "loop"
  /\ toSee' # toSee
  /\ compareFn(poppedHolder.cost, encounteredNodes[poppedHolder.nodeKey].cost) > 0

(* C29: in each engine the pop of a holder whose cost is strictly worse    *)
(* than the registry cost of its key only removes that holder: successors  *)
(* is not called, the registry is left as it was, nothing is pushed, no    *)
(* goal is reported and no sink recorded; when the key of such a holder    *)
(* satisfies success, the loop is left before success is asked.            *)
C29_StaleHolderIsDiscarded ==
  [][popsStaleHolder =>
       /\ toSee' = toSee \ {poppedHolder}
       /\ encounteredNodes' = encounteredNodes
       /\ pending' = pending
       /\ holder' = holder
       /\ closed' = closed
       /\ pc' \in {"loop", "finish"}
       /\ result' = result
       /\ sinks' = sinks
       /\ minCost' = minCost
       /\ success(encounteredNodes[poppedHolder.nodeKey].node) =>
            (call.fn = "aStarBag" /\ pc' = "finish")]_vars

(* In aStarBag, before any goal was popped, the one minimum of the         *)
(* frontier is a stale holder of a key that has successors: the pop that   *)
(* follows discards it.                                                    *)
C29_Witness ==
  /\ call.fn = "aStarBag"
  /\ pc = "loop"
  /\ minCost = Undefined
  /\ toSee # {}
  /\ \A h \in minima :
       /\ compareFn(h.cost, encounteredNodes[h.nodeKey].cost) > 0
       /\ successors(encounteredNodes[h.nodeKey].node) # <<>>

----------------------------------------------------------------------------
visitsRegisteredKey == pc = "expand" /\ visitedSuccessorKey \in DOMAIN encounteredNodes

recordedCost == encounteredNodes[visitedSuccessorKey].cost

(* C30: the visit of a successor whose key is registered at a cost not     *)
(* strictly worse than the new cost leaves the frontier, the cost and node *)
(* of the key and every other entry as they were; dijkstra and aStar leave *)
(* the parent too, aStarBag adds the expanded key to the parents on equal  *)
(* cost and leaves them on a better recorded cost.  The frontier changes   *)
(* only for an unseen key or a strict improvement, and on a strict         *)
(* improvement aStarBag makes the expanded key the only parent.            *)
C30_NoBetterRouteChangesNothing ==
  [][pc = "expand" =>
       /\ (visitsRegisteredKey /\ compareFn(recordedCost, visitedNewCost) <= 0) =>
            /\ toSee' = toSee
            /\ DOMAIN encounteredNodes' = DOMAIN encounteredNodes
            /\ \A k \in DOMAIN encounteredNodes \ {visitedSuccessorKey} :
                 encounteredNodes'[k] = encounteredNodes[k]
            /\ encounteredNodes'[visitedSuccessorKey].cost = recordedCost
            /\ encounteredNodes'[visitedSuccessorKey].node
                 = encounteredNodes[visitedSuccessorKey].node
            /\ IF call.fn = "aStarBag"
                 THEN encounteredNodes'[visitedSuccessorKey].parentKeys =
                        IF compareFn(recordedCost, visitedNewCost) = 0
                          THEN setAdd(encounteredNodes[visitedSuccessorKey].parentKeys,
                                      holder.nodeKey)
                          ELSE encounteredNodes[visitedSuccessorKey].parentKeys
                 ELSE encounteredNodes'[visitedSuccessorKey].parentKey
                        = encounteredNodes[visitedSuccessorKey].parentKey
       /\ toSee' # toSee =>
            \/ ~visitsRegisteredKey
            \/ compareFn(recordedCost, visitedNewCost) > 0
       /\ (call.fn = "aStarBag" /\ visitsRegisteredKey
             /\ compareFn(recordedCost, visitedNewCost) > 0) =>
            /\ encounteredNodes'[visitedSuccessorKey].parentKeys = <<holder.nodeKey>>
            /\ encounteredNodes'[visitedSuccessorKey].cost = visitedNewCost]_vars

(* aStarBag registered a second parent of equal cost for a key while the   *)
(* frontier holds one holder for that key.                                 *)
C30_Witness ==
  /\ call.fn = "aStarBag"
  /\ pc \in {"loop", "expand"}
  /\ \E k \in DOMAIN encounteredNodes :
       /\ Len(encounteredNodes[k].parentKeys) = 2
       /\ Cardinality({h \in toSee : h.nodeKey = k}) = 1

----------------------------------------------------------------------------
popsHolder == pc = "loop" /\ toSee' # toSee

(* The pop goes on to options.successors: no success return, no discard.   *)
dijkstraCallsSuccessors ==
  /\ popsHolder
  /\ call.fn = "dijkstraInternal"
  /\ ~success(encounteredNodes[poppedHolder.nodeKey].node)
  /\ compareFn(poppedHolder.cost, encounteredNodes[poppedHolder.nodeKey].cost) <= 0

lexicographicallyAtMost(a, b) ==
  \/ compareFn(a.estimatedCost, b.estimatedCost) < 0
  \/ /\ compareFn(a.estimatedCost, b.estimatedCost) = 0
     /\ compareFn(a.cost, b.cost) <= 0

(* C31: in dijkstraInternal each popped holder costs at least what the     *)
(* holder popped before it cost, and successors is called for a key at     *)
(* most once in a call; in aStar and aStarBag the popped holder is a       *)
(* minimum of the frontier for the order by estimated cost, then by cost.  *)
C31_HoldersArePoppedInOrder ==
  [][popsHolder =>
       IF call.fn = "dijkstraInternal"
         THEN /\ popped.nodeKey # Undefined =>
                   compareFn(popped.cost, poppedHolder.cost) <= 0
              /\ \A o \in toSee : compareFn(poppedHolder.cost, o.cost) <= 0
              /\ dijkstraCallsSuccessors => poppedHolder.nodeKey \notin closed
         ELSE \A o \in toSee : lexicographicallyAtMost(poppedHolder, o)]_vars

(* dijkstraInternal has expanded every key and has then popped, at a       *)
(* higher cost, a second holder of a key it had expanded.                  *)
C31_Witness ==
  /\ call.fn = "dijkstraInternal"
  /\ pc = "loop"
  /\ closed = Keys
  /\ popped.nodeKey \in closed
  /\ popped.cost >= 1
  /\ compareFn(popped.cost, encounteredNodes[popped.nodeKey].cost) > 0

----------------------------------------------------------------------------
recordedParents(k) ==
  IF call.fn = "aStarBag" THEN bagParentsOf(k)
  ELSE IF encounteredNodes[k].parentKey = Undefined THEN {}
  ELSE {encounteredNodes[k].parentKey}

RECURSIVE chainsBackFrom(_)
chainsBackFrom(S) ==
  LET T == S \cup UNION {recordedParents(k) : k \in S}
  IN IF T = S THEN S ELSE chainsBackFrom(T)

tightLink(p, k) ==
  /\ <<p, k>> \in DOMAIN problem.edges
  /\ encounteredNodes[k].cost = add(encounteredNodes[p].cost, problem.edges[<<p, k>>])

returnedKeys ==
  IF call.fn = "aStarBag" THEN {sinks[i] : i \in 1 .. Len(sinks)}
  ELSE DOMAIN encounteredNodes

(* C32: in every state of every engine a recorded parent of a key other    *)
(* than the start is registered at a cost not above the cost of the key;   *)
(* and once dijkstraAll or aStarBag has returned, along the chains that    *)
(* lead back from the returned keys, or from the sinks, the cost of a key  *)
(* is the cost of its parent plus the cost of the edge between them.       *)
C32_ParentsCostNoMoreAndChainsAreTight ==
  /\ \A k \in DOMAIN encounteredNodes \ {key(startNode)} :
       \A p \in recordedParents(k) :
         /\ p \in DOMAIN encounteredNodes
         /\ compareFn(encounteredNodes[p].cost, encounteredNodes[k].cost) <= 0
  /\ (dijkstraAllReturned
        \/ (call.fn = "aStarBag"
              /\ pc \in {"returnedPaths", "iterating", "returned", "threw"})) =>
       \A k \in chainsBackFrom(returnedKeys) :
         \A p \in recordedParents(k) : tightLink(p, k)

(* aStarBag has returned a sink of cost 1 or more that has two parents.    *)
C32_Witness ==
  /\ call.fn = "aStarBag"
  /\ pc = "returnedPaths"
  /\ \E i \in 1 .. Len(sinks) :
       /\ Cardinality(recordedParents(sinks[i])) = 2
       /\ encounteredNodes[sinks[i]].cost >= 1

----------------------------------------------------------------------------
(* C33: when the start satisfies success, aStarBag returns the cost zero   *)
(* and paths, iterated to its end, yields one path: the start alone.       *)
C33_StartGoalYieldsStartPath ==
  (call.fn = "aStarBag" /\ pc \in {"returned", "threw"} /\ success(startNode)) =>
    /\ pc = "returned"
    /\ result # <<>>
    /\ result[2] = zero
    /\ yielded = << <<startNode>> >>

----------------------------------------------------------------------------
searching == pc \in {"loop", "expand"}

(* C34: on a graph with non-negative edge costs, cycles of cost zero       *)
(* included, the search loop of every engine comes to an end, and it ends  *)
(* on an empty frontier, on the pop of a key that satisfies success        *)
(* (dijkstraInternal, aStar) or on the cutoff of aStarBag.                 *)
C34_SearchLoopTerminates ==
  /\ searching ~> ~searching
  /\ [][(searching /\ ~searching') =>
          \/ toSee = {}
          \/ /\ call.fn \in {"dijkstraInternal", "aStar"}
             /\ popsHolder
             /\ success(encounteredNodes[poppedHolder.nodeKey].node)
          \/ /\ call.fn = "aStarBag"
             /\ popsHolder
             /\ bagCutoff(poppedHolder.estimatedCost, minCost)]_vars

(* dijkstraInternal has run out of frontier after it expanded the keys,    *)
(* one of them on a cycle of cost zero.                                    *)
C34_Witness ==
  /\ returned("dijkstraInternal")
  /\ result = Undefined
  /\ toSee = {}
  /\ closed = Keys
  /\ \E k \in closed : onZeroCostCycle(problem.edges, k)

----------------------------------------------------------------------------
(* The index reached from idx by following entries, at most steps times.   *)
RECURSIVE followed(_, _, _)
followed(table, idx, steps) ==
  IF idx = emptyGroupId \/ steps = 0 THEN idx
  ELSE IF table[idx] = idx THEN idx
  ELSE followed(table, table[idx], steps - 1)

rootOf(table, idx) == followed(table, idx, arrayLength(table))

nonEmptyIndices(table) == {i \in DOMAIN table : table[i] # emptyGroupId}

isForest(table) ==
  \A i \in nonEmptyIndices(table) :
    LET root == rootOf(table, i)
    IN root \in DOMAIN table /\ table[root] = root

lookupKeepsRoots(table) ==
  \A idx \in nonEmptyIndices(table) :
    LET looked == getAndRedirect(table, idx)
    IN /\ looked.idx = rootOf(table, idx)
       /\ DOMAIN looked.table = DOMAIN table
       /\ \A j \in DOMAIN table :
            /\ looked.table[j] \in
                 IF table[j] = emptyGroupId THEN {emptyGroupId}
                 ELSE {table[j], table[table[j]]}
            /\ rootOf(looked.table, j) = rootOf(table, j)

(* The tables the forEach callback passes through on the group at          *)
(* groupCursor, one per node of the group.                                 *)
tablesWithinVisit ==
  IF phase = "forEach" /\ groupCursor < arrayLength(groups)
    THEN LET group == groups[groupCursor]
             entered == [setIdsByGroup |-> IF Len(group) = 0
                                             THEN markEmpty(setIdsByGroup, groupCursor)
                                             ELSE setIdsByGroup,
                         setIdsByNode |-> setIdsByNode,
                         groupIndex |-> groupCursor]
         IN {visitNodes(entered, SubSeq(group, 1, n)).setIdsByGroup :
               n \in 0..Len(group)}
    ELSE {}

(* The tables the pass over setIdsByNode goes through, one per entry.      *)
tablesWithinRedirect ==
  IF phase = "forEach" /\ groupCursor = arrayLength(groups)
    THEN {redirectNodes(setIdsByGroup, SubSeq(setIdsByNode, 1, n), 1).setIdsByGroup :
            n \in 0..Len(setIdsByNode)}
    ELSE {}

(* C35: while separateComponents runs, following the entries of            *)
(* setIdsByGroup from the index of a non-empty group reaches an entry that *)
(* points to itself and never -1; getAndRedirect returns that entry's      *)
(* index, rewrites an entry only to its grandparent and leaves the root of *)
(* every index as it was; after the last pass every entry other than -1    *)
(* is a root.                                                              *)
C35_TableIsForestAndLookupKeepsRoots ==
  /\ phase # "idle" =>
       \A table \in {setIdsByGroup} \cup tablesWithinVisit \cup tablesWithinRedirect :
         isForest(table) /\ lookupKeepsRoots(table)
  /\ phase \notin {"idle", "forEach"} =>
       \A i \in nonEmptyIndices(setIdsByGroup) :
         setIdsByGroup[setIdsByGroup[i]] = setIdsByGroup[i]

(* Every group is visited and one entry is two steps from its root, so     *)
(* that the passes to come rewrite it.                                     *)
C35_Witness ==
  /\ phase = "forEach"
  /\ groupCursor = arrayLength(groups)
  /\ \E i \in nonEmptyIndices(setIdsByGroup) :
       /\ setIdsByGroup[i] # i
       /\ setIdsByGroup[setIdsByGroup[i]] # setIdsByGroup[i]
       /\ getAndRedirect(setIdsByGroup, i).table # setIdsByGroup

====
